---- MODULE Spec2Model ----
(***************************************************************************)
(* A model of the ulauncher AI extension (src/main.py): the query handler  *)
(* KeywordQueryEventListener.on_event with its retry loop, the session     *)
(* state of GPTExtension, the text wrapper and the log retention cleanup.  *)
(* Text is a sequence of one-character strings, so that lower(), split(),  *)
(* strip(), slicing and joining are computed as Python computes them.      *)
(***************************************************************************)
EXTENDS Integers, Sequences, FiniteSets, TLC

VARIABLES
    conversation_history,  \* GPTExtension.conversation_history: list of {user, ai}
    api_call_count,        \* GPTExtension.api_call_count
    pc,                    \* position of on_event: "idle", "loop" or "after"
    search_term,           \* local of on_event: the query of the running/last invocation
    keyword,               \* the keyword of the event of that invocation
    prefs,                 \* locals of on_event parsed from the preferences
    messages,              \* local of on_event: the message list of the request body
    retries,               \* local of on_event
    response,              \* local of on_event: the last response object obtained
    result,                \* the result list handed back by the last invocation
    raised,                \* the last invocation ended in an uncaught exception
    trace,                 \* "post" and "sleep" events of the running/last invocation
    sent,                  \* the message list posted on each attempt of that invocation
    last_outcome,          \* outcome of the latest POST attempt of that invocation
    writes,                \* the save_log calls of that invocation
    chat_queries,          \* number of chat queries delivered so far
    ok_queries,            \* number of chat queries that returned the success item
    successes,             \* the (query, reply) pairs of the success items, in call order
    cleared,               \* a clear-history query has been delivered
    wrap_in,               \* input of the wrapper under test: [text, max_w]
    wrap_out,              \* its output: [done, text]
    log_dir,               \* the files of the log directory: name -> modification time
    cleanup_in,            \* input of the cleanup under test: [now, days, undeletable, before]
    cleanup_done,          \* cleanup_old_logs has returned
    clock,                 \* datetime.now() as save_log reads it, in ticks
    log_files,             \* the log files: name -> the documents written to it, in order
    log_directory,         \* the log_directory preference: [set, s]
    scanned,               \* the directory run() gave to cleanup_old_logs: [done, path]
    saved                  \* the directory on_event gives to save_log: [done, path]

hvars == <<conversation_history, api_call_count, pc, search_term, keyword, prefs, messages,
           retries, response, result, raised, trace, sent, last_outcome, writes,
           chat_queries, ok_queries, successes, cleared>>
wvars == <<wrap_in, wrap_out>>
cvars == <<log_dir, cleanup_in, cleanup_done>>
lvars == <<clock, log_files>>
dvars == <<log_directory, scanned, saved>>
vars == <<hvars, wvars, cvars, lvars, dvars>>

----------------------------------------------------------------------------
(* Bounds of the model *)

MaxChatQueries == 3     \* chat queries delivered in one run of Spec
MaxKeywordQueries == 1  \* chat queries delivered in one run of SpecKeyword
MaxQuotaQueries == 53   \* chat queries delivered in one run of SpecQuota
MaxUnsuccessful == 2    \* of which chat queries that do not return the success item
MaxQuotaHistory == 2    \* exchanges held when a chat query is delivered in SpecQuota
MaxTextLen == 5         \* length of the texts given to the wrapper
MaxWidth == 3           \* widths given to the wrapper
MaxTime == 3            \* clock values and modification times of the cleanup
MaxLogQueries == 1      \* chat queries delivered in one run of SpecLog
MaxSeconds == 5         \* seconds covered by the clock of SpecLog
TicksPerSecond == 2     \* ticks of that clock in one second
MaxPersists == 2        \* a chat or export query is delivered while fewer logs exist
MaxDirLen == 3          \* length of the values of the log_directory preference

(* Program constants *)

QuotaThreshold == 50
max_retries == 2
PreviewLen == 200
ViewPreviewLen == 50
ViewLast == 5
ImagePrefixLen == 14

----------------------------------------------------------------------------
(* Text: sequences of one-character strings *)

Min(a, b) == IF a < b THEN a ELSE b
Max(a, b) == IF a > b THEN a ELSE b

Take(s, n) == SubSeq(s, 1, Min(n, Len(s)))          \* s[:n]
Drop(s, n) == SubSeq(s, Min(n, Len(s)) + 1, Len(s)) \* s[n:]

RECURSIVE Flatten(_, _)
\* sep.join(lines)
Flatten(lines, sep) ==
    IF lines = <<>> THEN <<>>
    ELSE IF Len(lines) = 1 THEN lines[1]
    ELSE lines[1] \o sep \o Flatten(Tail(lines), sep)

UpperChars == <<"A", "C", "E", "H", "I", "L", "O", "R", "S", "T", "U", "Y">>
LowerChars == <<"a", "c", "e", "h", "i", "l", "o", "r", "s", "t", "u", "y">>

\* str.lower() on one character
lower_char(c) ==
    IF \E i \in 1..Len(UpperChars) : UpperChars[i] = c
    THEN LowerChars[CHOOSE i \in 1..Len(UpperChars) : UpperChars[i] = c]
    ELSE c

\* str.lower()
lower(s) == [i \in 1..Len(s) |-> lower_char(s[i])]

\* str.startswith(p)
startswith(s, p) == Len(s) >= Len(p) /\ SubSeq(s, 1, Len(p)) = p

IsSpace(c) == c = " " \/ c = "\n"

RECURSIVE lstrip(_)
lstrip(s) == IF s # <<>> /\ IsSpace(s[1]) THEN lstrip(Tail(s)) ELSE s

RECURSIVE rstrip(_)
rstrip(s) ==
    IF s # <<>> /\ IsSpace(s[Len(s)]) THEN rstrip(SubSeq(s, 1, Len(s) - 1)) ELSE s

\* str.strip()
strip(s) == rstrip(lstrip(s))

RECURSIVE split_from(_, _, _)
\* str.split(): the maximal runs of non-whitespace characters
split_from(s, cur, acc) ==
    IF s = <<>> THEN (IF cur = <<>> THEN acc ELSE Append(acc, cur))
    ELSE IF IsSpace(s[1])
         THEN split_from(Tail(s), <<>>, IF cur = <<>> THEN acc ELSE Append(acc, cur))
         ELSE split_from(Tail(s), Append(cur, s[1]), acc)

split(s) == split_from(s, <<>>, <<>>)

Digits == <<"0", "1", "2", "3", "4", "5", "6", "7", "8", "9">>

\* str.isdigit(): non-empty and every character a digit
isdigit(s) == s # <<>> /\ \A i \in 1..Len(s) : \E d \in 1..10 : Digits[d] = s[i]

digit_value(c) == (CHOOSE d \in 1..10 : Digits[d] = c) - 1

RECURSIVE int_of(_, _)
int_of(s, acc) == IF s = <<>> THEN acc ELSE int_of(Tail(s), 10 * acc + digit_value(s[1]))

\* int(s) for a string of digits
to_int(s) == int_of(s, 0)

----------------------------------------------------------------------------
(* Text Formatter *)

RECURSIVE chunk(_, _, _)
\* the inner while loop of wrap_text_basic: [lines, word] after hard-splitting word
chunk(word, max_w, lines) ==
    IF Len(word) > max_w
    THEN chunk(Drop(word, max_w), max_w, Append(lines, Take(word, max_w)))
    ELSE [lines |-> lines, word |-> word]

RECURSIVE wrap_loop(_, _, _, _)
\* the for loop of wrap_text_basic followed by the final flush
wrap_loop(words, max_w, lines, current_line) ==
    IF words = <<>>
    THEN (IF current_line # <<>> THEN Append(lines, strip(current_line)) ELSE lines)
    ELSE LET word == words[1] IN
         IF Len(current_line \o word) <= max_w
         THEN wrap_loop(Tail(words), max_w, lines, current_line \o <<" ">> \o word)
         ELSE LET flushed == IF current_line # <<>>
                             THEN Append(lines, strip(current_line)) ELSE lines
                  c == chunk(word, max_w, flushed)
              IN IF Len(word) > max_w
                 THEN wrap_loop(Tail(words), max_w, c.lines, c.word)
                 ELSE wrap_loop(Tail(words), max_w, flushed, word)

\* the list `lines` of wrap_text_basic at its return (max_w > 0)
wrap_lines(text, max_w) == wrap_loop(split(text), max_w, <<>>, <<>>)

wrap_text_basic(text, max_w) ==
    IF max_w <= 0 THEN text ELSE Flatten(wrap_lines(text, max_w), <<"\n">>)

RECURSIVE replace_newlines(_, _)
\* str.replace('\n', by)
replace_newlines(s, by) ==
    IF s = <<>> THEN <<>>
    ELSE (IF s[1] = "\n" THEN by ELSE <<s[1]>>) \o replace_newlines(Tail(s), by)

BoldMark == <<"*", "*">>
BreakMark == <<"*", "*", "<", "b", "r", ">", "*", "*">>

wrap_text(text, max_w, theme) ==
    LET wrapped == wrap_text_basic(text, max_w) IN
    IF theme = "dark"
    THEN BoldMark \o replace_newlines(wrapped, BreakMark) \o BoldMark
    ELSE wrapped

----------------------------------------------------------------------------
(* Values of the reply's content field, as Python sees them after json() *)

Str(s) == [t |-> "str", s |-> s]
\* null; it stands for every value of the content field that is not a string
Null == [t |-> "null", s |-> <<>>]

\* wrap_text applied to whatever the content field held: [exc, val].
\* text.split() and wrapped.replace() raise AttributeError on a non-string.
wrap_value(v, max_w, theme) ==
    IF max_w > 0 /\ v.t # "str" THEN [exc |-> TRUE, val |-> v]
    ELSE IF theme = "dark" /\ v.t # "str" THEN [exc |-> TRUE, val |-> v]
    ELSE IF v.t = "str" THEN [exc |-> FALSE, val |-> Str(wrap_text(v.s, max_w, theme))]
    ELSE [exc |-> FALSE, val |-> v]

----------------------------------------------------------------------------
(* The texts of the model *)

clear_history == <<"c", "l", "e", "a", "r", " ", "h", "i", "s", "t", "o", "r", "y">>
Clear_History == <<"C", "l", "e", "a", "r", " ", "H", "I", "S", "T", "O", "R", "Y">>
view_history == <<"v", "i", "e", "w", " ", "h", "i", "s", "t", "o", "r", "y">>
export_full_log == <<"e", "x", "p", "o", "r", "t", " ", "f", "u", "l", "l", " ", "l", "o", "g">>
generate_image_cmd == <<"g", "e", "n", "e", "r", "a", "t", "e", " ", "i", "m", "a", "g", "e">>
generate_image_cat == generate_image_cmd \o <<" ", "c", "a", "t">>
true_text == <<"t", "r", "u", "e">>
True_text == <<"T", "r", "u", "e">>
False_text == <<"F", "a", "l", "s", "e">>
hi == <<"h", "i">>
reply_text == <<"a", "b", " ", "c", "d", " ", "e">>
sys_text == <<"b", "e", " ", "k", "i", "n", "d">>
user_label == <<"U", "s", "e", "r", ":", " ">>
ai_label == <<".", ".", ".", " ", "A", "I", ":", " ">>
dots == <<".", ".", ".">>

\* event.get_argument() or '': the empty text also stands for an absent argument
Queries == {<<>>, clear_history, Clear_History, view_history, export_full_log,
            generate_image_cat, hi}
QuotaQueries == {<<>>, clear_history, Clear_History, view_history, export_full_log, generate_image_cat, hi}

\* The keyword under which the host delivers the query (event.get_keyword());
\* on_event never reads it
Keywords == {"chat", "preset"}
ChatKeyword == {"chat"}
NoKeyword == "none"

\* The preferences mapping as the host delivers it
RawPrefs(complete, temp_ok, line_wrap, wrapping, theme, dalle) ==
    [complete |-> complete, temperature_ok |-> temp_ok, system_prompt |-> sys_text,
     line_wrap |-> line_wrap, enable_wrapping |-> wrapping, theme |-> theme,
     dalle_api_key |-> dalle]

Preferences ==
    { RawPrefs(TRUE, TRUE, <<"0">>, False_text, "light", <<>>),
      RawPrefs(TRUE, TRUE, <<"3">>, True_text, "light", <<"k">>),
      RawPrefs(TRUE, TRUE, <<"x">>, true_text, "dark", <<>>),
      RawPrefs(TRUE, FALSE, <<"3">>, True_text, "light", <<>>),
      RawPrefs(FALSE, TRUE, <<"3">>, True_text, "light", <<>>) }
QuotaPreferences ==
    { RawPrefs(TRUE, TRUE, <<"0">>, False_text, "light", <<"k">>),
      RawPrefs(FALSE, TRUE, <<"3">>, True_text, "light", <<>>) }

\* Outcomes of one requests.post: an exception, or a response object
Bodies == { [shape |-> "badjson", content |-> Null],
            [shape |-> "nopath", content |-> Null],
            [shape |-> "content", content |-> Null],
            [shape |-> "content", content |-> Str(reply_text)] }
NoBody == [shape |-> "badjson", content |-> Null]
Exc == [got |-> FALSE, status |-> 0, body |-> NoBody]
Resp(status, body) == [got |-> TRUE, status |-> status, body |-> body]
Outcomes == {Exc, Resp(500, NoBody), Resp(201, NoBody)} \cup {Resp(200, b) : b \in Bodies}
QuotaOutcomes == {Exc, Resp(200, [shape |-> "content", content |-> Str(reply_text)])}

\* Outcomes of generate_image: the url, the failed-status text, the error text
ImageOutcomes == {"url", "Image gen failed", "Error"}

None == Exc   \* response = None

\* requests.Response.__bool__ is Response.ok: a response with status < 400
Truthy(r) == r.got /\ r.status < 400

----------------------------------------------------------------------------
(* Log retention cleanup.  Time is counted in days. *)

log_prefix == <<"a", "i", "_", "c", "o", "n", "v", "e", "r", "s", "a", "t", "i", "o", "n", "_">>
md_suffix == <<".", "m", "d">>
log_a == log_prefix \o <<"1">> \o md_suffix
log_b == log_prefix \o md_suffix
log_txt == log_prefix \o <<"1", ".", "t", "x", "t">>
notes_md == <<"n", "o", "t", "e", "s">> \o md_suffix

FileNames == {log_a, log_b, log_txt, notes_md}

Absent == -1
EmptyDir == [n \in FileNames |-> Absent]

\* str.endswith(p)
endswith(s, p) == Len(s) >= Len(p) /\ SubSeq(s, Len(s) - Len(p) + 1, Len(s)) = p

\* glob on "ai_conversation_*.md" (line 84)
MatchesPattern(name) ==
    /\ Len(name) >= Len(log_prefix) + Len(md_suffix)
    /\ startswith(name, log_prefix)
    /\ endswith(name, md_suffix)

\* the age test with <= in place of <
IsOldOrAtCutoff(timestamp, cutoff) == timestamp <= cutoff

\* line 87
IsOld(timestamp, cutoff) == timestamp < cutoff

\* cleanup_old_logs: the directory after the call.  os.remove raises on the
\* files of `undeletable`; the exception is logged and the loop goes on.
cleanup_old_logs(directory, now, days, undeletable) ==
    IF days <= 0 THEN directory
    ELSE LET cutoff == now - days IN
         [n \in FileNames |->
            IF /\ directory[n] # Absent
               /\ MatchesPattern(n)
               /\ IsOld(directory[n], cutoff)
               /\ n \notin undeletable
            THEN Absent ELSE directory[n]]

----------------------------------------------------------------------------
(* Result items, log documents, save_log *)

Desc(k, text, n) == [k |-> k, text |-> text, n |-> n]
Item(name, description) == [name |-> name, description |-> description]

\* create_log_md: the fields of the rendered document
create_log_md(history, user_prompt, ai_response, error) ==
    [history |-> history, user_prompt |-> user_prompt,
     ai_response |-> ai_response, error |-> error]

\* save_log: [ok, content]; it returns the file path, or "Error: ..." when
\* makedirs, open or write raised
save_log(log_content, io_ok) == [ok |-> io_ok, content |-> log_content]

\* the last tick of the clock
MaxClock == MaxSeconds * TicksPerSecond

\* strftime('%Y%m%d_%H%M%S'): the clock cut to the second
strftime(t) == <<Digits[(t \div TicksPerSecond) + 1]>>

\* line 130
filename(t) == log_prefix \o strftime(t) \o md_suffix

LogFileNames == {filename(t) : t \in 0..MaxClock}
NoLogFiles == [n \in LogFileNames |-> <<>>]

\* lines 132-133: open(filepath, 'w') and write, at clock t; a failed call
\* leaves the files as they are
Persist(files, w, t) ==
    IF w.ok THEN [files EXCEPT ![filename(t)] = Append(@, w.content)] ELSE files

\* the number of documents written so far
Persisted ==
    Cardinality(UNION {{<<n, i>> : i \in 1..Len(log_files[n])} : n \in LogFileNames})

\* the text save_log returned, as it is put into an item description
SavedText(w) == IF w.ok THEN "filepath" ELSE "Error"

\* the locals on_event parses from the preferences (lines 170-179)
ParsePrefs(raw) ==
    [system_prompt |-> raw.system_prompt,
     wrap_len |-> IF isdigit(raw.line_wrap) THEN to_int(raw.line_wrap) ELSE 0,
     enable_wrapping |-> lower(raw.enable_wrapping) = true_text,
     theme |-> raw.theme,
     dalle_key |-> raw.dalle_api_key]

PrefsFail(raw) == ~raw.complete \/ ~raw.temperature_ok

NoPrefs == ParsePrefs(RawPrefs(TRUE, TRUE, <<"0">>, False_text, "light", <<>>))

IsCommand(term) ==
    \/ lower(term) = clear_history
    \/ lower(term) = view_history
    \/ startswith(lower(term), generate_image_cmd)
    \/ lower(term) = export_full_log

\* a query that reaches the chat branch when nothing short-circuits it
IsChat(term) == term # <<>> /\ ~IsCommand(term)

\* the stored exchanges appended assistant message first
BuildMessagesSwapped(system_prompt, history, term) ==
    <<[role |-> "system", content |-> Str(system_prompt)]>>
    \o [i \in 1..(2 * Len(history)) |->
          IF i % 2 = 0
          THEN [role |-> "user", content |-> Str(history[i \div 2].user)]
          ELSE [role |-> "assistant", content |-> history[(i + 1) \div 2].ai]]
    \o <<[role |-> "user", content |-> Str(term)]>>

\* lines 262-266
BuildMessages(system_prompt, history, term) ==
    <<[role |-> "system", content |-> Str(system_prompt)]>>
    \o [i \in 1..(2 * Len(history)) |->
          IF i % 2 = 1
          THEN [role |-> "user", content |-> Str(history[(i + 1) \div 2].user)]
          ELSE [role |-> "assistant", content |-> history[i \div 2].ai]]
    \o <<[role |-> "user", content |-> Str(term)]>>

\* the preview line of one exchange (line 213); ex['ai'][:50] raises on a non-string
PreviewLine(ex) ==
    user_label \o Take(ex.user, ViewPreviewLen) \o ai_label
    \o Take(ex.ai.s, ViewPreviewLen) \o dots

LastN(s, n) == SubSeq(s, Max(1, Len(s) - n + 1), Len(s))

\* the quota test one call late
QuotaExceededOneLate(count) == count > QuotaThreshold + 1

\* the quota test with >= in place of >
QuotaExceededAtThreshold(count) == count >= QuotaThreshold

\* line 190
QuotaExceeded(count) == count > QuotaThreshold

\* a quota test that lets the commands through
QuotaStopsChatOnly(count, term) == QuotaExceeded(count) /\ IsChat(term)

\* lines 190-197: the test comes before the query is read (line 199), so it
\* stops the invocation whatever the query is
QuotaStops(count, term) == QuotaExceeded(count)

\* a clear that keeps the list
ClearedHistoryKept(h) == h

\* line 204
ClearedHistory(h) == <<>>

\* a clear that also persists the history it drops
ClearSavesDropped(h) == <<save_log(create_log_md(h, <<>>, Str(<<>>), ""), TRUE)>>

\* lines 203-210: the save_log calls of the clear branch; it makes none
ClearSaves(h) == <<>>

\* a loop that allows one retry more
LoopContinuesOneMore(r) == r <= max_retries + 1

\* line 274
LoopContinues(r) == r <= max_retries

QuotaItem == Item("Quota Exceeded", Desc("warning", <<>>, QuotaThreshold))

\* What an invocation does before the retry loop (lines 169-259):
\* [chat, result, raised, history, writes]; chat = TRUE means the chat branch is entered
Dispatch(term, raw, img, io_ok) ==
    LET p == ParsePrefs(raw)
        h == conversation_history
        Ret(items) == [chat |-> FALSE, result |-> items, raised |-> FALSE,
                       history |-> h, writes |-> <<>>]
    IN
    IF PrefsFail(raw)
    THEN Ret(<<Item("Failed to parse preferences", Desc("err", <<>>, 0))>>)
    ELSE IF QuotaStops(api_call_count, term)
    THEN Ret(<<QuotaItem>>)
    ELSE IF lower(term) = clear_history
    THEN [Ret(<<Item("clear_success", Desc("text", <<>>, 0))>>)
             EXCEPT !.history = ClearedHistory(h), !.writes = ClearSaves(h)]
    ELSE IF lower(term) = view_history
    THEN LET shown == LastN(h, ViewLast) IN
         IF \E i \in 1..Len(shown) : shown[i].ai.t # "str"
         THEN [Ret(<<>>) EXCEPT !.raised = TRUE]
         ELSE IF shown = <<>>
         THEN Ret(<<Item("Recent Conversation History", Desc("no_history", <<>>, 0))>>)
         ELSE Ret(<<Item("Recent Conversation History",
                         Desc("text", Flatten([i \in 1..Len(shown) |-> PreviewLine(shown[i])],
                                              <<"\n">>), 0))>>)
    ELSE IF startswith(lower(term), generate_image_cmd)
    THEN IF p.dalle_key = <<>>
         THEN Ret(<<Item("Image generation requires DALL-E API key",
                         Desc("Set in preferences", <<>>, 0))>>)
         ELSE Ret(<<Item("image_generated",
                         Desc(img, strip(Drop(term, ImagePrefixLen)), 0))>>)
    ELSE IF lower(term) = export_full_log
    THEN IF h = <<>>
         THEN Ret(<<Item("no_history_export", Desc("none", <<>>, 0))>>)
         ELSE LET w == save_log(create_log_md(h, <<>>, Str(<<>>), ""), io_ok) IN
              [Ret(<<Item("export_success", Desc(SavedText(w), <<>>, 0))>>)
                  EXCEPT !.writes = <<w>>]
    ELSE IF term = <<>>
    THEN Ret(<<Item("blank_prompt", Desc("none", <<>>, 0))>>)
    ELSE [Ret(<<>>) EXCEPT !.chat = TRUE]

\* on_event up to the retry loop: an immediate return, or entry into the loop
Start(terms, keywords, rawprefs, limit, slack, maxhist) ==
    \E term \in terms, kw \in keywords, raw \in rawprefs :
      \E img \in (IF startswith(lower(term), generate_image_cmd)
                  THEN ImageOutcomes ELSE {"url"}),
         io_ok \in (IF lower(term) = export_full_log THEN BOOLEAN ELSE {TRUE}) :
        /\ pc = "idle"
        /\ IsChat(term) => /\ chat_queries < limit
                           /\ chat_queries - ok_queries < slack
                           /\ Len(conversation_history) < maxhist
        /\ \E d \in {Dispatch(term, raw, img, io_ok)} :
            /\ search_term' = term
            /\ keyword' = kw
            /\ prefs' = IF d.chat THEN ParsePrefs(raw) ELSE NoPrefs
            /\ conversation_history' = d.history
            /\ result' = d.result
            /\ raised' = d.raised
            /\ writes' = d.writes
            /\ trace' = <<>>
            /\ sent' = <<>>
            /\ last_outcome' = None
            /\ retries' = 0
            /\ response' = None
            /\ messages' = IF d.chat
                           THEN BuildMessages(raw.system_prompt, conversation_history, term)
                           ELSE <<>>
            /\ pc' = IF d.chat THEN "loop" ELSE "idle"
            /\ chat_queries' = IF IsChat(term) THEN chat_queries + 1 ELSE chat_queries
            /\ cleared' = (cleared \/ lower(term) = clear_history)
            /\ successes' = IF cleared' THEN <<>> ELSE successes
            /\ UNCHANGED <<api_call_count, ok_queries, wvars, cvars>>

\* One pass of the while loop (lines 274-285): a POST, then break or count and sleep
Attempt(outcomes) ==
    \E o \in outcomes :
        /\ pc = "loop"
        /\ LoopContinues(retries)
        /\ sent' = Append(sent, messages)
        /\ last_outcome' = o
        /\ response' = IF o.got THEN o ELSE response
        /\ IF o.got /\ o.status = 200
           THEN /\ retries' = retries
                /\ trace' = Append(trace, "post")
                /\ pc' = "after"
           ELSE /\ retries' = retries + 1
                /\ trace' = trace \o <<"post", "sleep">>
                /\ pc' = IF LoopContinues(retries + 1) THEN "loop" ELSE "after"
        /\ UNCHANGED <<conversation_history, api_call_count, search_term, keyword, prefs, messages,
                       result, raised, writes, chat_queries, ok_queries, successes, cleared,
                       wvars, cvars>>

\* an item that reports the failed log write in place of the reply
ResponseItemOrSaveError(wrapped_response, filepath) ==
    IF filepath.ok
    THEN Item("Response from model",
              Desc("text",
                   Take(wrapped_response, PreviewLen)
                   \o (IF Len(wrapped_response) > PreviewLen THEN dots ELSE <<>>), 0))
    ELSE Item("parse_error", Desc("Failed to save log", <<>>, 0))

\* lines 311-316: the item of a parsed reply; filepath is what save_log returned,
\* which is only passed to logger.info
ResponseItem(wrapped_response, filepath) ==
    Item("Response from model",
         Desc("text",
              Take(wrapped_response, PreviewLen)
              \o (IF Len(wrapped_response) > PreviewLen THEN dots ELSE <<>>), 0))

\* What on_event does after the loop (lines 287-327):
\* [result, history, count, writes, success].  ok1 and ok2 are the outcomes of the
\* first and the second save_log call of the invocation.
AfterLoop(ok1, ok2) ==
    LET h == conversation_history
        ErrorItem(error, hist, count, before, ok) ==
            [result |-> <<Item("parse_error", Desc(error, <<>>, 0))>>,
             history |-> hist, count |-> count,
             writes |-> Append(before,
                               save_log(create_log_md(hist, search_term, Str(<<>>), error), ok)),
             success |-> FALSE]
    IN
    IF ~Truthy(response) \/ response.status # 200
    THEN LET error_msg == "Request failed after 2 retries" IN
         [result |-> <<Item("request_failed",
                            Desc(error_msg, <<>>,
                                 IF Truthy(response) THEN response.status ELSE 0))>>,
          history |-> h, count |-> api_call_count,
          writes |-> <<save_log(create_log_md(h, search_term, Str(<<>>), error_msg), ok1)>>,
          success |-> FALSE]
    ELSE IF response.body.shape # "content"
    THEN ErrorItem("Failed to parse response", h, api_call_count, <<>>, ok1)
    ELSE LET ai_response == response.body.content
             wrapped == IF prefs.enable_wrapping
                        THEN wrap_value(ai_response, prefs.wrap_len, prefs.theme)
                        ELSE [exc |-> FALSE, val |-> ai_response]
         IN
         IF wrapped.exc
         THEN ErrorItem("Failed to parse response", h, api_call_count, <<>>, ok1)
         ELSE LET h2 == Append(h, [user |-> search_term, ai |-> ai_response])
                  c2 == api_call_count + 1
                  w == save_log(create_log_md(h2, search_term, wrapped.val, ""), ok1)
              IN
              \* wrapped_response[:200] + '...' raises TypeError on a non-string
              IF wrapped.val.t # "str"
              THEN ErrorItem("Failed to parse response", h2, c2, <<w>>, ok2)
              ELSE [result |-> <<ResponseItem(wrapped.val.s, w)>>,
                    history |-> h2, count |-> c2, writes |-> <<w>>, success |-> TRUE]

\* on_event from the end of the loop to its return
Finish ==
    \E ok1 \in BOOLEAN, ok2 \in BOOLEAN :
        /\ pc = "after"
        /\ \E a \in {AfterLoop(ok1, ok2)} :
            /\ conversation_history' = a.history
            /\ api_call_count' = a.count
            /\ result' = a.result
            /\ writes' = a.writes
            /\ pc' = "idle"
            /\ ok_queries' = IF a.success THEN ok_queries + 1 ELSE ok_queries
            /\ successes' = IF a.success /\ ~cleared
                            THEN Append(successes,
                                        [user |-> search_term, ai |-> response.body.content])
                            ELSE successes
            \* the locals end with the invocation
            /\ prefs' = NoPrefs
            /\ messages' = <<>>
            /\ retries' = 0
            /\ response' = None
            /\ UNCHANGED <<search_term, keyword, raised, trace, sent, last_outcome, chat_queries, cleared,
                           wvars, cvars>>

----------------------------------------------------------------------------
(* The log directory, as run() and as on_event take it from the preferences *)

HOME == <<"/", "h">>   \* the user's home directory
cwd == <<"/", "w">>    \* the working directory of the process

Unset == [set |-> FALSE, s |-> <<>>]

\* preferences.get(key, default)
Get(pref, default) == IF pref.set THEN pref.s ELSE default

RECURSIVE find(_, _, _)
\* str.find(c, i - 1) + 1, and Len(s) + 1 where Python returns -1
find(s, c, i) ==
    IF i > Len(s) THEN Len(s) + 1
    ELSE IF s[i] = c THEN i
    ELSE find(s, c, i + 1)

RECURSIVE rstrip_slash(_)
\* str.rstrip('/')
rstrip_slash(s) ==
    IF s # <<>> /\ s[Len(s)] = "/" THEN rstrip_slash(SubSeq(s, 1, Len(s) - 1)) ELSE s

\* os.path.expanduser: "~" and "~/..." take the home directory; "~name" of a
\* user that does not exist, like every other path, comes back as it is
expanduser(path) ==
    IF ~startswith(path, <<"~">>) THEN path
    ELSE IF find(path, "/", 2) # 2 THEN path
    ELSE LET expanded == rstrip_slash(HOME) \o Drop(path, 1) IN
         IF expanded = <<>> THEN <<"/">> ELSE expanded

\* the directory in which os.path.join(directory, name) names a file: the
\* working directory for '', a relative path taken from the working directory
Resolve(directory) ==
    IF directory = <<>> THEN cwd
    ELSE IF directory[1] = "/" THEN directory
    ELSE cwd \o <<"/">> \o directory

\* line 149
RunLogDirectory(pref) == expanduser(Get(pref, <<"~">>))

\* line 177
OnEventLogDirectory(pref) ==
    IF strip(Get(pref, <<>>)) # <<>> THEN strip(Get(pref, <<>>)) ELSE expanduser(<<"~">>)

NotDone == [done |-> FALSE, path |-> <<>>]

DirIdle ==
    /\ log_directory = Unset
    /\ scanned = NotDone
    /\ saved = NotDone

----------------------------------------------------------------------------
(* The extension: one instance, queries delivered one at a time *)

WrapIdle == [text |-> <<>>, max_w |-> 0]
NoOutput == [done |-> FALSE, text |-> <<>>]
CleanupIdle == [now |-> 0, days |-> 0, undeletable |-> {}, before |-> EmptyDir]

\* GPTExtension.__init__ and the class attribute api_call_count
InitExtension ==
    /\ conversation_history = <<>>
    /\ api_call_count = 0
    /\ pc = "idle"
    /\ search_term = <<>>
    /\ keyword = NoKeyword
    /\ prefs = NoPrefs
    /\ messages = <<>>
    /\ retries = 0
    /\ response = None
    /\ result = <<>>
    /\ raised = FALSE
    /\ trace = <<>>
    /\ sent = <<>>
    /\ last_outcome = None
    /\ writes = <<>>
    /\ chat_queries = 0
    /\ ok_queries = 0
    /\ successes = <<>>
    /\ cleared = FALSE

Init ==
    /\ InitExtension
    /\ wrap_in = WrapIdle
    /\ wrap_out = NoOutput
    /\ log_dir = EmptyDir
    /\ cleanup_in = CleanupIdle
    /\ cleanup_done = FALSE
    /\ clock = 0
    /\ log_files = NoLogFiles
    /\ DirIdle

\* Spec, SpecQuota and SpecKeyword follow the handler by its save_log calls
\* (writes); the clock and the files written are followed in SpecLog.
OnEventStart ==
    /\ Start(Queries, ChatKeyword, Preferences, MaxChatQueries, MaxChatQueries + 1,
             MaxChatQueries + 1)
    /\ UNCHANGED <<lvars, dvars>>
OnEventAttempt == Attempt(Outcomes) /\ UNCHANGED <<lvars, dvars>>
OnEventFinish == Finish /\ UNCHANGED <<lvars, dvars>>

Next == OnEventStart \/ OnEventAttempt \/ OnEventFinish

Spec == Init /\ [][Next]_vars

\* The same extension driven long enough to reach the quota
QuotaStart ==
    /\ Start(QuotaQueries, ChatKeyword, QuotaPreferences, MaxQuotaQueries, MaxUnsuccessful,
             MaxQuotaHistory)
    /\ UNCHANGED <<lvars, dvars>>
QuotaAttempt == Attempt(QuotaOutcomes) /\ UNCHANGED <<lvars, dvars>>

NextQuota == QuotaStart \/ QuotaAttempt \/ OnEventFinish

SpecQuota == Init /\ [][NextQuota]_vars

\* The same extension with queries delivered under either keyword
KeywordStart ==
    /\ Start(Queries, Keywords, Preferences, MaxKeywordQueries, MaxKeywordQueries + 1,
             MaxKeywordQueries + 1)
    /\ UNCHANGED <<lvars, dvars>>
KeywordAttempt == Attempt(Outcomes) /\ UNCHANGED <<lvars, dvars>>

NextKeyword == KeywordStart \/ KeywordAttempt \/ OnEventFinish

SpecKeyword == Init /\ [][NextKeyword]_vars

----------------------------------------------------------------------------
(* The extension with its clock and its log files *)

LogQueries == {hi, export_full_log, clear_history}
LogPreferences == {RawPrefs(TRUE, TRUE, <<"0">>, False_text, "light", <<>>)}
LogOutcomes == {Exc,
                Resp(200, [shape |-> "content", content |-> Str(reply_text)]),
                Resp(200, [shape |-> "content", content |-> Null])}

\* a log document left by an earlier process
OldDoc ==
    create_log_md(<<[user |-> hi, ai |-> Str(reply_text)]>>, hi, Str(reply_text), "")

\* a fresh process; the log directory is empty or holds a log of an earlier second
InitLog ==
    /\ InitExtension
    /\ wrap_in = WrapIdle
    /\ wrap_out = NoOutput
    /\ log_dir = EmptyDir
    /\ cleanup_in = CleanupIdle
    /\ cleanup_done = FALSE
    /\ clock = TicksPerSecond
    /\ log_files \in {NoLogFiles, [NoLogFiles EXCEPT ![filename(0)] = <<OldDoc>>]}
    /\ DirIdle

\* on_event up to the retry loop; 'export full log' calls save_log (line 241)
LogStart ==
    /\ Start(LogQueries, ChatKeyword, LogPreferences, MaxLogQueries, MaxLogQueries + 1,
             MaxLogQueries + 1)
    /\ lower(search_term') # clear_history => Persisted < MaxPersists
    \* a chat query is delivered while the clock has room for its pauses
    /\ IsChat(search_term') => clock + (max_retries + 1) * TicksPerSecond + 1 <= MaxClock
    /\ log_files' = IF writes' = <<>> THEN log_files ELSE Persist(log_files, writes'[1], clock)
    /\ clock' = clock
    /\ UNCHANGED dvars

\* one pass of the loop; time.sleep(1) lets a second pass
LogAttempt ==
    /\ Attempt(LogOutcomes)
    /\ clock' = IF retries' # retries THEN clock + TicksPerSecond ELSE clock
    /\ UNCHANGED <<log_files, dvars>>

\* on_event from the end of the loop to its return: one save_log call, or two
\* (lines 308 and 321) with d ticks between them
LogFinish ==
    /\ Finish
    /\ \E d \in (IF Len(writes') = 2 THEN 0..1 ELSE {0}) :
        /\ log_files' = IF Len(writes') = 2
                        THEN Persist(Persist(log_files, writes'[1], clock), writes'[2], clock + d)
                        ELSE Persist(log_files, writes'[1], clock)
        /\ clock' = clock + d
    /\ UNCHANGED dvars

\* time passes between two queries
Tick ==
    /\ pc = "idle"
    /\ clock < MaxClock
    /\ clock' = clock + 1
    /\ UNCHANGED <<hvars, wvars, cvars, log_files, dvars>>

NextLog == LogStart \/ LogAttempt \/ LogFinish \/ Tick

SpecLog == InitLog /\ [][NextLog]_vars

----------------------------------------------------------------------------
(* Vocabulary of the claims about the query handler *)

\* the last (or running) invocation was delivered a chat query
LastWasChat == IsChat(search_term)

\* the last invocation returned the preferences error
PrefsFailed ==
    pc = "idle" /\ result = <<Item("Failed to parse preferences", Desc("err", <<>>, 0))>>

\* the last invocation returned without any POST
ShortCircuited == pc = "idle" /\ sent = <<>>

\* every chat query before the last one returned the success item
PriorAllOk ==
    ok_queries = IF pc = "idle" /\ Len(result) = 1 /\ result[1].name = "Response from model"
                 THEN chat_queries ELSE chat_queries - 1

ReturnedItem(name) == pc = "idle" /\ Len(result) = 1 /\ result[1].name = name

Is200(o) == o.got /\ o.status = 200

\* a 200 reply whose content field is text
Parseable(o) == o.body.shape = "content" /\ o.body.content.t = "str"

----------------------------------------------------------------------------
(* C1 *)

\* C1 as stated: in a run in which every chat query succeeds, chat queries 1..50
\* are sent to the remote endpoint and the 51st returns the quota-exceeded item
\* without any POST.
C1_QuotaAt51 ==
    (LastWasChat /\ PriorAllOk /\ ~PrefsFailed) =>
        /\ chat_queries <= QuotaThreshold => ~ShortCircuited
        /\ chat_queries = QuotaThreshold + 1 =>
               (ReturnedItem("Quota Exceeded") /\ sent = <<>>)

\* C1 amended: in a run in which every chat query succeeds, chat queries 1..51
\* are sent to the remote endpoint and the 52nd returns the quota-exceeded item
\* without any POST.
C1_QuotaAt52 ==
    (LastWasChat /\ PriorAllOk /\ ~PrefsFailed) =>
        /\ chat_queries <= QuotaThreshold + 1 => ~ShortCircuited
        /\ chat_queries = QuotaThreshold + 2 =>
               (ReturnedItem("Quota Exceeded") /\ sent = <<>>)

C1_Witness ==
    /\ LastWasChat
    /\ chat_queries = QuotaThreshold + 2
    /\ ok_queries = QuotaThreshold + 1
    /\ ReturnedItem("Quota Exceeded")
    /\ sent = <<>>

----------------------------------------------------------------------------
(* C2 *)

\* C2: a chat query makes at most 3 POST attempts; a further attempt follows only
\* an attempt that was not a 200; when no attempt returned 200 there are exactly
\* 3 attempts and the request-failed item is returned; when an attempt returned
\* 200 it is the last one and, the reply being parseable, the success item is
\* returned.
C2_RetryPolicy ==
    /\ Len(sent) <= max_retries + 1
    /\ pc = "loop" => /\ Len(sent) <= max_retries
                      /\ sent # <<>> => ~Is200(last_outcome)
    /\ (pc = "idle" /\ sent # <<>>) =>
           IF Is200(last_outcome)
           THEN Parseable(last_outcome) => ReturnedItem("Response from model")
           ELSE Len(sent) = max_retries + 1 /\ ReturnedItem("request_failed")

C2_Witness ==
    /\ Len(sent) = max_retries + 1
    /\ ~Is200(last_outcome)
    /\ ReturnedItem("request_failed")

----------------------------------------------------------------------------
(* C3 *)

\* C3: as long as no clear-history query was delivered, Session State is exactly
\* the list of the (query, reply) pairs of the success items, in call order.
C3_HistoryIsSuccesses ==
    (pc = "idle" /\ ~cleared) => conversation_history = successes

----------------------------------------------------------------------------
(* C4 *)

\* C4 as stated: a clear-history query (any letter case), delivered with valid
\* preferences, leaves Session State empty whatever preceded it.
C4_ClearAlwaysEmpties ==
    (pc = "idle" /\ lower(search_term) = clear_history /\ ~PrefsFailed) =>
        conversation_history = <<>>

\* C4 amended: a clear-history query (any letter case) delivered with valid
\* preferences while the quota counter is at most 50 returns the clear-success
\* item and leaves Session State empty; once the counter exceeds 50 it returns
\* the quota-exceeded item instead.
C4_ClearBelowQuota ==
    (pc = "idle" /\ lower(search_term) = clear_history /\ ~PrefsFailed) =>
        IF api_call_count <= QuotaThreshold
        THEN conversation_history = <<>> /\ ReturnedItem("clear_success")
        ELSE ReturnedItem("Quota Exceeded")

C4_Witness ==
    /\ pc = "idle"
    /\ search_term = Clear_History
    /\ ReturnedItem("clear_success")
    /\ conversation_history = <<>>
    /\ ok_queries >= 2

----------------------------------------------------------------------------
(* C5 *)

\* C5: the quota counter changes, and Session State grows, only in the return of
\* a chat query that hands back the success item, and then by exactly one
\* exchange and one count.
C5_OnlySuccessMutates ==
    [][(api_call_count' # api_call_count
        \/ Len(conversation_history') > Len(conversation_history)) =>
          /\ ReturnedItem("Response from model")'
          /\ api_call_count' = api_call_count + 1
          /\ Len(conversation_history') = Len(conversation_history) + 1]_vars

----------------------------------------------------------------------------
(* C6 *)

\* C6: every invocation returns a result list of at least one item and raises no
\* uncaught error.
C6_AlwaysOneResult ==
    [][pc' = "idle" => (~raised' /\ Len(result') >= 1)]_vars

----------------------------------------------------------------------------
(* C7 *)

\* the message list the claim describes for the stored exchanges h and query term
IsExpectedMessages(m, h, term) ==
    /\ Len(m) = 2 * Len(h) + 2
    /\ m[1] = [role |-> "system", content |-> Str(prefs.system_prompt)]
    /\ \A j \in 1..Len(h) :
           /\ m[2 * j] = [role |-> "user", content |-> Str(h[j].user)]
           /\ m[2 * j + 1] = [role |-> "assistant", content |-> h[j].ai]
    /\ m[Len(m)] = [role |-> "user", content |-> Str(term)]

\* C7: while a chat query is in its retry loop or just past it, every attempt made
\* so far posted the list: system message, the stored exchanges as user/assistant
\* pairs in insertion order, the new query (2N+2 messages).
C7_MessageList ==
    pc # "idle" =>
        \A i \in 1..Len(sent) : IsExpectedMessages(sent[i], conversation_history, search_term)

C7_Witness ==
    /\ pc = "after"
    /\ Len(sent) = max_retries + 1
    /\ Len(conversation_history) = 2
    /\ conversation_history[1] # conversation_history[2]

----------------------------------------------------------------------------
(* C10 *)

\* C10: an export-full-log query on non-empty Session State persists one
\* full-history document and returns the export-success item with the path
\* written; when persisting fails the item is not the export-success item; on
\* empty Session State it returns the nothing-to-export item and writes nothing;
\* Session State and the quota counter are unchanged.
C10_Export ==
    [][(pc = "idle" /\ pc' = "idle" /\ lower(search_term') = export_full_log
        /\ ~PrefsFailed' /\ ~ReturnedItem("Quota Exceeded")') =>
          /\ UNCHANGED <<conversation_history, api_call_count>>
          /\ IF conversation_history = <<>>
             THEN ReturnedItem("no_history_export")' /\ writes' = <<>>
             ELSE /\ Len(writes') = 1
                  /\ writes'[1].content.history = conversation_history
                  /\ IF writes'[1].ok
                     THEN /\ ReturnedItem("export_success")'
                          /\ result'[1].description.k = "filepath"
                     ELSE ~ReturnedItem("export_success")']_vars

----------------------------------------------------------------------------
(* C11 *)

\* C11: the return of a chat query hands back the item, leaves the Session State
\* and leaves the quota counter that it would with every log write succeeding,
\* whichever of its log writes fail.
C11_LogFailureNeverAlters ==
    [][(pc = "after" /\ pc' = "idle") =>
          \E a \in {AfterLoop(TRUE, TRUE)} :
              /\ result' = a.result
              /\ conversation_history' = a.history
              /\ api_call_count' = a.count]_vars

C11_Witness ==
    /\ ReturnedItem("Response from model")
    /\ Len(writes) = 1 /\ ~writes[1].ok
    /\ conversation_history # <<>>
    /\ conversation_history[Len(conversation_history)].user = search_term
    /\ api_call_count = Len(conversation_history)

----------------------------------------------------------------------------
(* C12 *)

\* C12: a query delivered under the preset keyword is answered without any chat
\* request: its invocation returns at once and no POST is made for it.
C12_PresetWithoutChatRequest ==
    keyword = "preset" => (pc = "idle" /\ sent = <<>>)

----------------------------------------------------------------------------
(* C13 *)

\* C13: when all 3 attempts of a chat query failed, the request-failed item
\* reports the outcome of the last attempt: its status code if it returned a
\* response, "No response" (n = 0) only if it returned none.
C13_LastOutcomeReported ==
    (ReturnedItem("request_failed") /\ Len(sent) = max_retries + 1) =>
        result[1].description.n = IF last_outcome.got THEN last_outcome.status ELSE 0

----------------------------------------------------------------------------
(* C14 *)

Pauses == Cardinality({i \in 1..Len(trace) : trace[i] = "sleep"})

\* C14: within one chat query every pause is followed by a further attempt: a
\* query that made k attempts paused k-1 times and its last event is an attempt.
C14_PauseOnlyBetweenAttempts ==
    (pc \in {"after", "idle"} /\ sent # <<>>) =>
        /\ trace[Len(trace)] = "post"
        /\ Pauses = Len(sent) - 1

----------------------------------------------------------------------------
(* C15 *)

\* C15: a persisted log document is written once and never updated: no file
\* name is written by more than one save_log call.
C15_WrittenOnce ==
    \A n \in LogFileNames : Len(log_files[n]) <= 1

----------------------------------------------------------------------------
(* C16 *)

\* C16: a fresh process starts with empty Session State whatever log files
\* exist, and the invocation of a clear-history query returns at once without
\* any POST, calls save_log nowhere, and leaves the quota counter and every log
\* file as they were.
C16_ClearTouchesOnlyHistory ==
    /\ conversation_history = <<>>
    /\ [][(pc = "idle" /\ lower(search_term') = clear_history) =>
             /\ pc' = "idle"
             /\ sent' = <<>>
             /\ writes' = <<>>
             /\ UNCHANGED <<api_call_count, log_files>>]_vars

C16_Witness ==
    /\ ReturnedItem("clear_success")
    /\ lower(search_term) = clear_history
    /\ conversation_history = <<>>
    /\ api_call_count >= 1
    /\ log_files[filename(0)] = <<OldDoc>>
    /\ \E n \in LogFileNames \ {filename(0)} : Len(log_files[n]) = 1

----------------------------------------------------------------------------
(* C17 *)

\* C17: the quota-exceeded item is returned only with the counter above the
\* threshold, and from then on every invocation returns at once, with the
\* quota-exceeded item when its preferences are valid, makes no POST and no
\* save_log call, and leaves Session State and the counter as they were.
C17_QuotaAbsorbing ==
    /\ [](ReturnedItem("Quota Exceeded") => api_call_count > QuotaThreshold)
    /\ [][(pc = "idle" /\ api_call_count > QuotaThreshold) =>
             /\ pc' = "idle"
             /\ ReturnedItem("Quota Exceeded")' \/ PrefsFailed'
             /\ sent' = <<>>
             /\ writes' = <<>>
             /\ UNCHANGED <<conversation_history, api_call_count>>]_vars

C17_Witness ==
    /\ ReturnedItem("Quota Exceeded")
    /\ lower(search_term) = clear_history
    /\ api_call_count = QuotaThreshold + 1
    /\ conversation_history # <<>>
    /\ ok_queries = QuotaThreshold + 1

----------------------------------------------------------------------------
(* C18 *)

\* C18: in every reachable state Session State holds at most as many exchanges
\* as the quota counter counts and the counter is at most 51; no step lowers
\* the counter.
C18_CounterBounds ==
    /\ [](/\ Len(conversation_history) <= api_call_count
          /\ api_call_count <= QuotaThreshold + 1)
    /\ [][api_call_count' >= api_call_count]_vars

C18_Witness ==
    /\ ReturnedItem("Response from model")
    /\ api_call_count = QuotaThreshold + 1
    /\ Len(conversation_history) = MaxQuotaHistory
    /\ cleared

----------------------------------------------------------------------------
(* The start-up cleanup and a persisting query under every small value of the
   log_directory preference *)

DirChars == {"~", "/", " ", "x"}
DirTexts == UNION {[1..n -> DirChars] : n \in 0..MaxDirLen}

InitDir ==
    /\ InitExtension
    /\ wrap_in = WrapIdle
    /\ wrap_out = NoOutput
    /\ log_dir = EmptyDir
    /\ cleanup_in = CleanupIdle
    /\ cleanup_done = FALSE
    /\ clock = 0
    /\ log_files = NoLogFiles
    /\ log_directory \in {Unset} \cup {[set |-> TRUE, s |-> t] : t \in DirTexts}
    /\ scanned = NotDone
    /\ saved = NotDone

\* GPTExtension.run (lines 146-154) with a positive log_cleanup_days: the
\* directory whose logs cleanup_old_logs globs
Run ==
    /\ ~scanned.done
    /\ scanned' = [done |-> TRUE, path |-> Resolve(RunLogDirectory(log_directory))]
    /\ UNCHANGED <<hvars, wvars, cvars, lvars, log_directory, saved>>

\* a chat query or an export that reaches save_log: the directory of the file
\* it opens (lines 177, 128-131)
PersistingQuery ==
    /\ scanned.done
    /\ ~saved.done
    /\ saved' = [done |-> TRUE, path |-> Resolve(OnEventLogDirectory(log_directory))]
    /\ UNCHANGED <<hvars, wvars, cvars, lvars, log_directory, scanned>>

NextDir == Run \/ PersistingQuery

SpecDir == InitDir /\ [][NextDir]_vars

\* C19: for every value of the log_directory preference the directory scanned
\* by the start-up cleanup is the directory in which the queries persist
\* their logs.
C19_SameDirectory ==
    (scanned.done /\ saved.done) => scanned.path = saved.path

----------------------------------------------------------------------------
(* The wrapper applied to every text over a letter and a blank *)

Chars == {"a", " "}
Texts == UNION {[1..n -> Chars] : n \in 0..MaxTextLen}

InitWrap ==
    /\ InitExtension
    /\ wrap_in \in [text : Texts, max_w : 0..MaxWidth]
    /\ wrap_out = NoOutput
    /\ log_dir = EmptyDir
    /\ cleanup_in = CleanupIdle
    /\ cleanup_done = FALSE
    /\ clock = 0
    /\ log_files = NoLogFiles
    /\ DirIdle

Wrap ==
    /\ ~wrap_out.done
    /\ wrap_out' = [done |-> TRUE, text |-> wrap_text_basic(wrap_in.text, wrap_in.max_w)]
    /\ UNCHANGED <<hvars, wrap_in, cvars, lvars, dvars>>

SpecWrap == InitWrap /\ [][Wrap]_vars

RECURSIVE lines_from(_, _, _)
\* str.split('\n')
lines_from(s, cur, acc) ==
    IF s = <<>> THEN Append(acc, cur)
    ELSE IF s[1] = "\n" THEN lines_from(Tail(s), <<>>, Append(acc, cur))
    ELSE lines_from(Tail(s), Append(cur, s[1]), acc)

OutputLines == lines_from(wrap_out.text, <<>>, <<>>)

\* C8: for a width w > 0 no line of the wrapper's output is longer than w (the
\* pieces and the remainder of a hard-split word are themselves at most w long).
C8_NoLineExceedsWidth ==
    (wrap_out.done /\ wrap_in.max_w > 0) =>
        \A i \in 1..Len(OutputLines) : Len(OutputLines[i]) <= wrap_in.max_w

----------------------------------------------------------------------------
(* The cleanup applied to every small directory *)

InitCleanup ==
    /\ InitExtension
    /\ wrap_in = WrapIdle
    /\ wrap_out = NoOutput
    /\ log_dir \in [FileNames -> Absent..MaxTime]
    /\ \E now \in (MaxTime - 1)..MaxTime, days \in -1..2,
          undeletable \in SUBSET {log_a, log_b} :
           cleanup_in = [now |-> now, days |-> days, undeletable |-> undeletable,
                         before |-> log_dir]
    /\ cleanup_done = FALSE
    /\ clock = 0
    /\ log_files = NoLogFiles
    /\ DirIdle

Cleanup ==
    /\ ~cleanup_done
    /\ log_dir' = cleanup_old_logs(log_dir, cleanup_in.now, cleanup_in.days,
                                   cleanup_in.undeletable)
    /\ cleanup_done' = TRUE
    /\ UNCHANGED <<hvars, wvars, cleanup_in, lvars, dvars>>

SpecCleanup == InitCleanup /\ [][Cleanup]_vars

LogNames == {log_a, log_b}
Removed == {n \in FileNames : cleanup_in.before[n] # Absent /\ log_dir[n] = Absent}
Kept == \A n \in FileNames \ Removed : log_dir[n] = cleanup_in.before[n]

\* C9 as stated: with retention-days > 0 exactly the log-pattern files with
\* modification time < now - days are removed (a file at the cutoff and a file
\* of another name stay); with retention-days <= 0 nothing is removed.
C9_ExactlyOldRemoved ==
    cleanup_done =>
        /\ Kept
        /\ Removed = IF cleanup_in.days > 0
                     THEN {n \in LogNames : /\ cleanup_in.before[n] # Absent
                                            /\ cleanup_in.before[n]
                                                 < cleanup_in.now - cleanup_in.days}
                     ELSE {}

\* C9 amended: with retention-days > 0 exactly the log-pattern files with
\* modification time < now - days whose deletion does not fail are removed (a
\* file at the cutoff, a file of another name and a file whose deletion fails
\* stay); with retention-days <= 0 nothing is removed.
C9_ExactlyOldDeletableRemoved ==
    cleanup_done =>
        /\ Kept
        /\ Removed = IF cleanup_in.days > 0
                     THEN {n \in LogNames : /\ cleanup_in.before[n] # Absent
                                            /\ cleanup_in.before[n]
                                                 < cleanup_in.now - cleanup_in.days
                                            /\ n \notin cleanup_in.undeletable}
                     ELSE {}

C9_Witness ==
    /\ cleanup_done
    /\ cleanup_in.days > 0
    /\ Removed = {log_a}
    /\ log_dir[log_b] = cleanup_in.now - cleanup_in.days
    /\ log_dir[log_txt] # Absent /\ log_dir[log_txt] < cleanup_in.now - cleanup_in.days
    /\ log_dir[notes_md] # Absent /\ log_dir[notes_md] < cleanup_in.now - cleanup_in.days

====
